---- MODULE Spec2Model ----
(***************************************************************************)
(* Model of aws-ecr-scan-detail (src/main.rs): main, list_all_repositories *)
(* and list_images_in_repository.                                          *)
(*                                                                         *)
(* Option<T> is a sequence of length at most one: <<>> is None and <<v>>   *)
(* is Some(v).  A line of standard output is the tuple of its              *)
(* ';'-separated fields.  A DateTime (i64 seconds since the epoch) is the  *)
(* record [days, secs] standing for days * 86400 + secs, with whole        *)
(* seconds only.                                                           *)
(***************************************************************************)
EXTENDS Integers, Sequences, FiniteSets, TLC

VARIABLES args, pc, repository_name, stdout, stderr, exit,
          calls, repositories, repoIdx, response, imgIdx

vars == <<args, pc, repository_name, stdout, stderr, exit,
          calls, repositories, repoIdx, response, imgIdx>>

(***************************************************************************)
(* Bounds                                                                  *)
(***************************************************************************)
MaxArgs == 2

MaxRepos == 2

MaxImages == 2

(***************************************************************************)
(* Constants of the program                                                *)
(***************************************************************************)
DockerV1 == "application/vnd.docker.container.image.v1+json"

Header == <<"repository_name", "image_tags", "image_digest",
            "image_scan_completed_date", "vulnerability_source_updated_date",
            "Critical", "High", "Medium", "Low", "Informational", "Undefined">>

\* Fault variant of Severities: Low printed before Medium.
Severities_LowBeforeMedium ==
    <<"Critical", "High", "Low", "Medium", "Informational", "Undefined">>

Severities == <<"Critical", "High", "Medium", "Low", "Informational", "Undefined">>

default_date == [days |-> 0, secs |-> 0]

(***************************************************************************)
(* Generic helpers                                                         *)
(***************************************************************************)
SeqsUpTo(S, n) == UNION {[1..k -> S] : k \in 0..n}

Contains(s, x) == \E i \in 1..Len(s) : s[i] = x

unwrap_or(opt, d) == IF opt = <<>> THEN d ELSE opt[1]

Digits == <<"0", "1", "2", "3", "4", "5", "6", "7", "8", "9">>

RECURSIVE IntToStr(_)
IntToStr(n) ==
    IF n < 0 THEN "-" \o IntToStr(0 - n)
    ELSE IF n < 10 THEN Digits[n + 1]
    ELSE IntToStr(n \div 10) \o Digits[(n % 10) + 1]

Pad2(n) == Digits[(n \div 10) + 1] \o Digits[(n % 10) + 1]

Pad4(n) == Pad2(n \div 100) \o Pad2(n % 100)

(***************************************************************************)
(* DateTime::fmt(DateTimeFormat::DateTime): the RFC-3339 rendering         *)
(* YYYY-MM-DDThh:mm:ssZ of the instant in UTC, an error outside the years  *)
(* 1..9999.  The result is an Option: <<>> is Err.                         *)
(***************************************************************************)
CivilFromDays(days) ==
    LET z   == days + 719468
        era == z \div 146097
        doe == z - era * 146097
        yoe == (doe - doe \div 1460 + doe \div 36524 - doe \div 146096) \div 365
        doy == doe - (365 * yoe + yoe \div 4 - yoe \div 100)
        mp  == (5 * doy + 2) \div 153
        d   == doy - (153 * mp + 2) \div 5 + 1
        m   == IF mp < 10 THEN mp + 3 ELSE mp - 9
        y   == yoe + era * 400 + (IF m <= 2 THEN 1 ELSE 0)
    IN  [year |-> y, month |-> m, day |-> d]

FmtDateTime(t) ==
    LET c == CivilFromDays(t.days)
    IN  IF c.year < 1 \/ c.year > 9999 THEN <<>>
        ELSE << Pad4(c.year) \o "-" \o Pad2(c.month) \o "-" \o Pad2(c.day) \o "T"
                \o Pad2(t.secs \div 3600) \o ":" \o Pad2((t.secs \div 60) % 60)
                \o ":" \o Pad2(t.secs % 60) \o "Z" >>

(***************************************************************************)
(* The body of the image loop of list_images_in_repository: the lines one  *)
(* image_detail adds to standard output (none or one).                     *)
(***************************************************************************)
SeverityGet(severity_map, sev) ==
    IF sev \in DOMAIN severity_map THEN severity_map[sev] ELSE 0

FirstTag(image_tag) == IF Len(image_tag) = 0 THEN "" ELSE image_tag[1]

BasicFields(image_detail) ==
    << unwrap_or(image_detail.repository_name, ""),
       FirstTag(unwrap_or(image_detail.image_tags, <<>>)),
       unwrap_or(image_detail.image_digest, "") >>

\* Fault variant of FindingsFields: an absent timestamp is left empty instead of
\* defaulting to default_date.
FindingsFields_NoEpochDefault(findings) ==
    LET severity_map == unwrap_or(findings.finding_severity_counts, << >>)
        Field(ts)    == IF ts = <<>> THEN "" ELSE unwrap_or(FmtDateTime(ts[1]), "")
    IN  << Field(findings.image_scan_completed_at),
           Field(findings.vulnerability_source_updated_at) >>
        \o [k \in 1..6 |-> IntToStr(SeverityGet(severity_map, Severities[k]))]

FindingsFields(findings) ==
    LET scan_complete_date == unwrap_or(findings.image_scan_completed_at, default_date)
        update_scan_date   == unwrap_or(findings.vulnerability_source_updated_at, default_date)
        severity_map       == unwrap_or(findings.finding_severity_counts, << >>)
    IN  << unwrap_or(FmtDateTime(scan_complete_date), ""),
           unwrap_or(FmtDateTime(update_scan_date), "") >>
        \o [k \in 1..6 |-> IntToStr(SeverityGet(severity_map, Severities[k]))]

NoFindingsFields == <<"", "", "0", "0", "0", "0", "0", "0">>

\* Fault variant of IsExpectedFormat: an absent media type is accepted.
IsExpectedFormat_AbsentAccepted(image_detail) ==
    \/ image_detail.artifact_media_type = <<>>
    \/ image_detail.artifact_media_type[1] = DockerV1

IsExpectedFormat(image_detail) ==
    /\ image_detail.artifact_media_type # <<>>
    /\ image_detail.artifact_media_type[1] = DockerV1

ImageLines(image_detail) ==
    IF IsExpectedFormat(image_detail)
    THEN << BasicFields(image_detail)
            \o (IF image_detail.image_scan_findings_summary # <<>>
                THEN FindingsFields(image_detail.image_scan_findings_summary[1])
                ELSE NoFindingsFields) >>
    ELSE << >>

(***************************************************************************)
(* Inputs: command lines and registry answers                              *)
(***************************************************************************)
ArgWords == {"--all", "--version", "a", "b"}

ArgLists == {<<"prog">> \o s : s \in SeqsUpTo(ArgWords, MaxArgs)}

Repo(name) == [repository_name |-> name]

RepoLists == SeqsUpTo({Repo(<<>>), Repo(<<"a">>), Repo(<<"b">>)}, MaxRepos)

ReposResponses == {<<>>} \cup {<<l>> : l \in RepoLists}

T2023 == [days |-> 19675, secs |-> 80000]

TYear10000 == [days |-> 2932897, secs |-> 0]

TYear0 == [days |-> 0 - 719163, secs |-> 86399]

TYear9999 == [days |-> 2932896, secs |-> 86399]

TYear1 == [days |-> 0 - 719162, secs |-> 0]

CountsCH == [s \in {"Critical", "High"} |-> IF s = "Critical" THEN 3 ELSE 1]

CountsAll == [s \in {"Critical", "High", "Medium", "Low", "Informational", "Undefined"} |->
                 CASE s = "Critical" -> 1 [] s = "High" -> 2 [] s = "Medium" -> 3
                   [] s = "Low" -> 4 [] s = "Informational" -> 5 [] OTHER -> 12]

CountsLow == [s \in {"Low", "Undefined", "Unknown"} |-> IF s = "Low" THEN 2 ELSE 7]

Timestamps == {<<>>, <<default_date>>, <<T2023>>, <<TYear1>>, <<TYear9999>>,
               <<TYear10000>>, <<TYear0>>}

SeverityMaps == {<<>>, << << >> >>, <<CountsCH>>, <<CountsAll>>, <<CountsLow>>}

Summaries ==
    {<<>>} \cup
    {<< [image_scan_completed_at |-> c, vulnerability_source_updated_at |-> u,
         finding_severity_counts |-> m] >> :
        c \in Timestamps, u \in Timestamps, m \in SeverityMaps}

ImageSet ==
    [artifact_media_type : {<<>>, <<DockerV1>>,
                            <<"application/vnd.docker.distribution.manifest.list.v2+json">>},
     repository_name : {<<>>, <<"a">>},
     image_tags : {<<>>, << << >> >>, << <<"v1", "v2", "v3">> >>},
     image_digest : {<<>>, <<"sha256:d1">>},
     image_scan_findings_summary : Summaries]

Image(media, tags, digest, summary) ==
    [artifact_media_type |-> media, repository_name |-> <<"a">>, image_tags |-> tags,
     image_digest |-> digest, image_scan_findings_summary |-> summary]

SkippedImage ==
    Image(<<"application/vnd.docker.distribution.manifest.list.v2+json">>,
          << <<"v1">> >>, <<"sha256:d1">>,
          << [image_scan_completed_at |-> <<T2023>>,
              vulnerability_source_updated_at |-> <<T2023>>,
              finding_severity_counts |-> <<CountsAll>>] >>)

ScannedImage ==
    Image(<<DockerV1>>, << <<"v1", "v2", "v3">> >>, <<"sha256:d2">>,
          << [image_scan_completed_at |-> <<T2023>>,
              vulnerability_source_updated_at |-> <<>>,
              finding_severity_counts |-> <<CountsCH>>] >>)

UnscannedImage == Image(<<DockerV1>>, <<>>, <<"sha256:d3">>, <<>>)

ImagePool == {SkippedImage, ScannedImage, UnscannedImage}

ImagesResponses == {<<>>} \cup {<<l>> : l \in SeqsUpTo(ImagePool, MaxImages)}

(***************************************************************************)
(* Registry calls: the log of requests, each pending, ok or err            *)
(***************************************************************************)
Call(op, repo) == [op |-> op, repo |-> repo, result |-> "pending"]

Send(op, repo) == Append(calls, Call(op, repo))

Complete(result) == [calls EXCEPT ![Len(calls)].result = result]

InFlight == Cardinality({i \in 1..Len(calls) : calls[i].result = "pending"})

(***************************************************************************)
(* Diagnostics: a line of standard error is <<text, repository>>           *)
(***************************************************************************)
Diag(text, repo) == <<text, repo>>

(***************************************************************************)
(* main                                                                    *)
(***************************************************************************)
process_version == Contains(args, "--version")

process_all == Contains(args, "--all")

Init ==
    /\ args \in ArgLists
    /\ pc = "main"
    /\ repository_name = <<>>
    /\ stdout = <<>>
    /\ stderr = <<>>
    /\ exit = <<>>
    /\ calls = <<>>
    /\ repositories = <<>>
    /\ repoIdx = 1
    /\ response = <<>>
    /\ imgIdx = 1

MainVersion ==
    /\ pc = "main"
    /\ process_version
    /\ stderr' = Append(stderr, Diag("version", args[1]))
    /\ exit' = <<0>>
    /\ pc' = "done"
    /\ UNCHANGED <<args, repository_name, stdout, calls, repositories, repoIdx,
                   response, imgIdx>>

\* Fault variant of MainUsage: the usage path exits with a failure status.
MainUsage_ExitOne ==
    /\ pc = "main"
    /\ ~process_version
    /\ ~process_all
    /\ Len(args) < 2
    /\ stderr' = Append(stderr, Diag("Usage", args[1]))
    /\ exit' = <<1>>
    /\ pc' = "done"
    /\ UNCHANGED <<args, repository_name, stdout, calls, repositories, repoIdx,
                   response, imgIdx>>

MainUsage ==
    /\ pc = "main"
    /\ ~process_version
    /\ ~process_all
    /\ Len(args) < 2
    /\ stderr' = Append(stderr, Diag("Usage", args[1]))
    /\ exit' = <<0>>
    /\ pc' = "done"
    /\ UNCHANGED <<args, repository_name, stdout, calls, repositories, repoIdx,
                   response, imgIdx>>

\* Fault variant of MainPrintHeaders: the header line is not printed.
MainPrintHeaders_NoHeader ==
    /\ pc = "main"
    /\ ~process_version
    /\ process_all \/ Len(args) >= 2
    /\ repository_name' = IF process_all THEN <<>> ELSE <<args[2]>>
    /\ pc' = "dispatch"
    /\ UNCHANGED <<args, stdout, stderr, exit, calls, repositories, repoIdx, response,
                   imgIdx>>

MainPrintHeaders ==
    /\ pc = "main"
    /\ ~process_version
    /\ process_all \/ Len(args) >= 2
    /\ repository_name' = IF process_all THEN <<>> ELSE <<args[2]>>
    /\ stdout' = Append(stdout, Header)
    /\ pc' = "dispatch"
    /\ UNCHANGED <<args, stderr, exit, calls, repositories, repoIdx, response, imgIdx>>

MainListImages ==
    /\ pc = "dispatch"
    /\ repository_name # <<>>
    /\ calls' = Send("listImages", repository_name[1])
    /\ pc' = "images_await"
    /\ UNCHANGED <<args, repository_name, stdout, stderr, exit, repositories, repoIdx,
                   response, imgIdx>>

MainListAll ==
    /\ pc = "dispatch"
    /\ repository_name = <<>>
    /\ calls' = Send("listRepositories", "")
    /\ pc' = "repos_await"
    /\ UNCHANGED <<args, repository_name, stdout, stderr, exit, repositories, repoIdx,
                   response, imgIdx>>

(***************************************************************************)
(* list_all_repositories                                                   *)
(***************************************************************************)
DescribeRepositoriesOk ==
    /\ pc = "repos_await"
    /\ \E r \in ReposResponses :
          repositories' = unwrap_or(r, <<>>)
    /\ repoIdx' = 1
    /\ calls' = Complete("ok")
    /\ pc' = "repos_loop"
    /\ UNCHANGED <<args, repository_name, stdout, stderr, exit, response, imgIdx>>

DescribeRepositoriesErr ==
    /\ pc = "repos_await"
    /\ calls' = Complete("err")
    /\ stderr' = stderr \o << Diag("Error describing repositories", ""),
                              Diag("Error listing all repositories", ""),
                              Diag("Error", "") >>
    /\ exit' = <<1>>
    /\ pc' = "done"
    /\ UNCHANGED <<args, repository_name, stdout, repositories, repoIdx, response, imgIdx>>

\* Fault variant of RepoNameNotFound: a missing name ends the run with an error.
RepoNameNotFound_Abort ==
    /\ pc = "repos_loop"
    /\ repoIdx <= Len(repositories)
    /\ repositories[repoIdx].repository_name = <<>>
    /\ stderr' = stderr \o << Diag("Repository name not found", ""),
                              Diag("Error listing all repositories", ""),
                              Diag("Error", "") >>
    /\ exit' = <<1>>
    /\ pc' = "done"
    /\ UNCHANGED <<args, repository_name, stdout, calls, repositories, repoIdx,
                   response, imgIdx>>

RepoNameNotFound ==
    /\ pc = "repos_loop"
    /\ repoIdx <= Len(repositories)
    /\ repositories[repoIdx].repository_name = <<>>
    /\ stderr' = Append(stderr, Diag("Repository name not found", ""))
    /\ repoIdx' = repoIdx + 1
    /\ UNCHANGED <<args, pc, repository_name, stdout, exit, calls, repositories,
                   response, imgIdx>>

RepoListImages ==
    /\ pc = "repos_loop"
    /\ repoIdx <= Len(repositories)
    /\ repositories[repoIdx].repository_name # <<>>
    /\ calls' = Send("listImages", repositories[repoIdx].repository_name[1])
    /\ pc' = "images_await"
    /\ UNCHANGED <<args, repository_name, stdout, stderr, exit, repositories, repoIdx,
                   response, imgIdx>>

ReposDone ==
    /\ pc = "repos_loop"
    /\ repoIdx > Len(repositories)
    /\ exit' = <<0>>
    /\ pc' = "done"
    /\ UNCHANGED <<args, repository_name, stdout, stderr, calls, repositories, repoIdx,
                   response, imgIdx>>

(***************************************************************************)
(* list_images_in_repository                                               *)
(***************************************************************************)
DescribeImagesOk ==
    /\ pc = "images_await"
    /\ \E r \in ImagesResponses :
          response' = unwrap_or(r, <<>>)
    /\ imgIdx' = 1
    /\ calls' = Complete("ok")
    /\ pc' = "images_loop"
    /\ UNCHANGED <<args, repository_name, stdout, stderr, exit, repositories, repoIdx>>

\* Fault variant of DescribeImagesErr: the error is reported but the run exits zero.
DescribeImagesErr_ExitZero ==
    /\ pc = "images_await"
    /\ calls' = Complete("err")
    /\ stderr' = stderr \o << Diag("Error listing images for repository",
                                   IF repository_name # <<>>
                                   THEN repository_name[1]
                                   ELSE repositories[repoIdx].repository_name[1]) >>
    /\ exit' = <<0>>
    /\ pc' = "done"
    /\ UNCHANGED <<args, repository_name, stdout, repositories, repoIdx, response, imgIdx>>

\* Fault variant of DescribeImagesErr: in all-repositories mode the failure is
\* reported and the loop goes on to the next repository.
DescribeImagesErr_Continue ==
    /\ pc = "images_await"
    /\ calls' = Complete("err")
    /\ IF repository_name # <<>>
       THEN /\ stderr' = stderr \o << Diag("Error listing images for repository",
                                           repository_name[1]),
                                      Diag("Error", "") >>
            /\ exit' = <<1>>
            /\ pc' = "done"
            /\ UNCHANGED repoIdx
       ELSE /\ stderr' = stderr \o << Diag("Error listing images for repository",
                                           repositories[repoIdx].repository_name[1]) >>
            /\ repoIdx' = repoIdx + 1
            /\ pc' = "repos_loop"
            /\ UNCHANGED exit
    /\ UNCHANGED <<args, repository_name, stdout, repositories, response, imgIdx>>

DescribeImagesErr ==
    /\ pc = "images_await"
    /\ calls' = Complete("err")
    /\ stderr' = IF repository_name # <<>>
                 THEN stderr \o << Diag("Error listing images for repository",
                                        repository_name[1]),
                                   Diag("Error", "") >>
                 ELSE stderr \o << Diag("Error listing images for repository",
                                        repositories[repoIdx].repository_name[1]),
                                   Diag("Error listing all repositories", ""),
                                   Diag("Error", "") >>
    /\ exit' = <<1>>
    /\ pc' = "done"
    /\ UNCHANGED <<args, repository_name, stdout, repositories, repoIdx, response, imgIdx>>

ProcessImage ==
    /\ pc = "images_loop"
    /\ imgIdx <= Len(response)
    /\ stdout' = stdout \o ImageLines(response[imgIdx])
    /\ imgIdx' = imgIdx + 1
    /\ UNCHANGED <<args, pc, repository_name, stderr, exit, calls, repositories,
                   repoIdx, response>>

\* Fault variant of ImagesDone: the loop may be left one image early.
ImagesDone_OneEarly ==
    /\ pc = "images_loop"
    /\ imgIdx >= Len(response)
    /\ IF repository_name # <<>>
       THEN /\ exit' = <<0>>
            /\ pc' = "done"
            /\ UNCHANGED repoIdx
       ELSE /\ repoIdx' = repoIdx + 1
            /\ pc' = "repos_loop"
            /\ UNCHANGED exit
    /\ response' = <<>>
    /\ imgIdx' = 1
    /\ UNCHANGED <<args, repository_name, stdout, stderr, calls, repositories>>

ImagesDone ==
    /\ pc = "images_loop"
    /\ imgIdx > Len(response)
    /\ IF repository_name # <<>>
       THEN /\ exit' = <<0>>
            /\ pc' = "done"
            /\ UNCHANGED repoIdx
       ELSE /\ repoIdx' = repoIdx + 1
            /\ pc' = "repos_loop"
            /\ UNCHANGED exit
    /\ response' = <<>>
    /\ imgIdx' = 1
    /\ UNCHANGED <<args, repository_name, stdout, stderr, calls, repositories>>

Next ==
    \/ MainVersion
    \/ MainUsage
    \/ MainPrintHeaders
    \/ MainListImages
    \/ MainListAll
    \/ DescribeRepositoriesOk
    \/ DescribeRepositoriesErr
    \/ RepoNameNotFound
    \/ RepoListImages
    \/ ReposDone
    \/ DescribeImagesOk
    \/ DescribeImagesErr
    \/ ProcessImage
    \/ ImagesDone

Spec == Init /\ [][Next]_vars

(***************************************************************************)
(* The image loop on an image of any shape: single-repository mode, right  *)
(* after describe_images answered with that image, alone or followed by a  *)
(* second image.                                                           *)
(***************************************************************************)
InitExtract ==
    /\ args = <<"prog", "a">>
    /\ pc = "images_loop"
    /\ repository_name = <<"a">>
    /\ stdout = <<Header>>
    /\ stderr = <<>>
    /\ exit = <<>>
    /\ calls = <<[op |-> "listImages", repo |-> "a", result |-> "ok"]>>
    /\ repositories = <<>>
    /\ repoIdx = 1
    /\ \E image_detail \in ImageSet :
          response \in {<<image_detail>>, <<image_detail, UnscannedImage>>}
    /\ imgIdx = 1

NextExtract ==
    \/ ProcessImage
    \/ ImagesDone

SpecExtract == InitExtract /\ [][NextExtract]_vars

(***************************************************************************)
(* Properties                                                              *)
(***************************************************************************)
ArgSet == {args[i] : i \in 1..Len(args)}

HeaderCount == Cardinality({i \in 1..Len(stdout) : stdout[i] = Header})

Failed == \E i \in 1..Len(calls) : calls[i].result = "err"

AllMode == Len(calls) >= 1 /\ calls[1].op = "listRepositories"

SingleMode == Len(calls) >= 1 /\ calls[1].op = "listImages"

IsDockerV1(image) == image.artifact_media_type = <<DockerV1>>

HasName(repo) == repo.repository_name # <<>>

Names(repos) == [i \in 1..Len(repos) |-> repos[i].repository_name[1]]

NamedIn(repos) == Names(SelectSeq(repos, HasName))

ListImagesNames ==
    LET idx == SelectSeq([i \in 1..Len(calls) |-> i], LAMBDA i : calls[i].op = "listImages")
    IN  [k \in 1..Len(idx) |-> calls[idx[k]].repo]

IsNotFoundDiag(line) == line = Diag("Repository name not found", "")

LastLines(n) == SubSeq(stdout, Len(stdout) - n + 1, Len(stdout))

RECURSIVE LinesOf(_)
LinesOf(images) ==
    IF images = <<>> THEN <<>>
    ELSE ImageLines(Head(images)) \o LinesOf(Tail(images))

\* C1 (as stated): every finished run has written the header exactly once, as the
\* first line of standard output.
C1_HeaderInEveryRun ==
    pc = "done" => (HeaderCount = 1 /\ stdout[1] = Header)

\* C1 (amended): the header is never written twice and no data row precedes it; a
\* finished run has written it exactly once if it is a report run (no argument is
\* --version, and --all or a first argument is given) and not at all if it is a
\* version or usage run.
C1_HeaderOnceInReportRuns ==
    /\ HeaderCount <= 1
    /\ stdout # <<>> => stdout[1] = Header
    /\ pc = "done" =>
          IF "--version" \notin ArgSet /\ ("--all" \in ArgSet \/ Len(args) >= 2)
          THEN HeaderCount = 1
          ELSE stdout = <<>>

C1_Witness ==
    /\ pc = "done"
    /\ exit = <<0>>
    /\ Len(stdout) = 3
    /\ stdout[1] = Header
    /\ stdout[2] # Header

\* C2: in the image loop a data row has been emitted for exactly the processed
\* images whose artifactMediaType is present and equal to the Docker v1 type, in
\* their order; the other images wrote nothing to either stream, and the loop is
\* left only after the last image of the response.
C2_RowIffDockerV1 ==
    /\ [](pc = "images_loop" =>
            LET kept == SelectSeq(SubSeq(response, 1, imgIdx - 1), IsDockerV1)
            IN  /\ Len(stdout) = 1 + Len(kept)
                /\ \A k \in 1..Len(kept) :
                      /\ Len(stdout[1 + k]) = 11
                      /\ stdout[1 + k][3] = unwrap_or(kept[k].image_digest, "")
                /\ stderr = <<>>)
    /\ [][pc = "images_loop" /\ pc' # "images_loop" =>
            imgIdx > Len(response) /\ stdout' = stdout]_vars

C2_Witness ==
    /\ pc = "images_loop"
    /\ Len(response) = 2
    /\ imgIdx = 3
    /\ response[1].artifact_media_type = <<>>
    /\ response[1].image_scan_findings_summary # <<>>
    /\ response[1].image_digest # <<>>
    /\ stdout = <<Header, <<"a", "", "sha256:d3", "", "", "0", "0", "0", "0", "0", "0">> >>

C4_ExitNonZeroIffRegistryFailure ==
    pc = "done" =>
        /\ exit \in {<<0>>, <<1>>}
        /\ exit = <<1>> <=> Failed
        /\ calls = <<>> => exit = <<0>>
        /\ (SingleMode /\ Failed) =>
              /\ stdout = <<Header>>
              /\ calls = <<[op |-> "listImages", repo |-> args[2], result |-> "err"]>>
              /\ Contains(stderr, Diag("Error listing images for repository", args[2]))

C4_Witness ==
    /\ pc = "done"
    /\ SingleMode
    /\ Failed
    /\ exit = <<1>>
    /\ args = <<"prog", "b">>

\* C5: in all-repositories mode a failed listImages ends the run at once with a
\* failing exit: the failed call is the last registry call, and from then on
\* neither a call nor a line of output is added; standard output only ever grows.
C5_AbortOnListImagesFailure ==
    /\ []((AllMode /\ Failed /\ Len(calls) >= 2) =>
            /\ pc = "done"
            /\ exit = <<1>>
            /\ \A i \in 1..Len(calls) : calls[i].result = "err" <=> i = Len(calls))
    /\ [][(AllMode /\ Failed) => (calls' = calls /\ stdout' = stdout)]_vars
    /\ [][Len(stdout') >= Len(stdout) /\ SubSeq(stdout', 1, Len(stdout)) = stdout]_vars

C5_Witness ==
    /\ pc = "done"
    /\ AllMode
    /\ Len(calls) = 3
    /\ calls[2].result = "ok"
    /\ calls[3].result = "err"
    /\ Len(stdout) = 3
    /\ exit = <<1>>

\* C6: in all-repositories mode the repositories without a name got a diagnostic
\* each and no listImages call, the named ones before the loop position got one
\* listImages call each, and a run in which no call failed ends with exit zero
\* after a listImages call for every named repository of the listing.
C6_MissingNameSkipped ==
    /\ (AllMode /\ pc = "repos_loop") =>
          LET seen == SubSeq(repositories, 1, repoIdx - 1)
          IN  /\ ListImagesNames = NamedIn(seen)
              /\ Len(SelectSeq(stderr, IsNotFoundDiag)) = Len(seen) - Len(NamedIn(seen))
              /\ exit = <<>>
    /\ (AllMode /\ pc = "done" /\ ~Failed) =>
          /\ ListImagesNames = NamedIn(repositories)
          /\ Len(SelectSeq(stderr, IsNotFoundDiag))
                = Len(repositories) - Len(NamedIn(repositories))
          /\ Len(stderr) = Len(SelectSeq(stderr, IsNotFoundDiag))
          /\ exit = <<0>>

C6_Witness ==
    /\ pc = "done"
    /\ repositories = <<Repo(<<>>), Repo(<<"b">>)>>
    /\ calls = << [op |-> "listRepositories", repo |-> "", result |-> "ok"],
                  [op |-> "listImages", repo |-> "b", result |-> "ok"] >>
    /\ stderr = <<Diag("Repository name not found", "")>>
    /\ Len(stdout) = 2
    /\ exit = <<0>>

\* C7: a run without arguments writes nothing to standard output, makes no
\* registry call, and ends with the usage message alone on the diagnostic stream
\* and exit status zero.
C7_NoArgumentsUsage ==
    Len(args) = 1 =>
        /\ stdout = <<>>
        /\ calls = <<>>
        /\ pc \in {"main", "done"}
        /\ pc = "main" => stderr = <<>> /\ exit = <<>>
        /\ pc = "done" => stderr = <<Diag("Usage", args[1])>> /\ exit = <<0>>

C7_Witness ==
    /\ Len(args) = 1
    /\ pc = "done"
    /\ stderr # <<>>

\* C8: at most one registry call is in flight, and only while the program awaits
\* it; in all-repositories mode the listImages calls made so far are the named
\* repositories up to the loop position, in the listing's order; in the image loop
\* the last lines of standard output are the rows of the images processed so far,
\* in the response's order; a call starts only outside the image loop, with no
\* other call in flight, and the image loop is left only after its last image.
C8_SequentialInOrder ==
    /\ [](/\ InFlight <= 1
          /\ InFlight = 1 <=> pc \in {"repos_await", "images_await"}
          /\ (AllMode /\ pc = "repos_loop") =>
                ListImagesNames = NamedIn(SubSeq(repositories, 1, repoIdx - 1))
          /\ (AllMode /\ pc \in {"images_await", "images_loop"}) =>
                ListImagesNames = NamedIn(SubSeq(repositories, 1, repoIdx))
          /\ pc = "images_loop" =>
                LET lines == LinesOf(SubSeq(response, 1, imgIdx - 1))
                IN  /\ Len(stdout) > Len(lines)
                    /\ LastLines(Len(lines)) = lines)
    /\ [][Len(calls') > Len(calls) =>
            /\ InFlight = 0
            /\ pc \in {"dispatch", "repos_loop"}
            /\ response = <<>>
            /\ stdout' = stdout]_vars
    /\ [][pc = "images_loop" /\ pc' # "images_loop" => imgIdx > Len(response)]_vars

C8_Witness ==
    /\ pc = "done"
    /\ exit = <<0>>
    /\ repositories = <<Repo(<<"b">>), Repo(<<"a">>)>>
    /\ ListImagesNames = <<"b", "a">>
    /\ Len(stdout) = 5
    /\ stdout[2][3] = "sha256:d3"
    /\ stdout[3][3] = "sha256:d2"

\* C9: the row of a Docker v1 image has eleven fields, the last six being the
\* counts of Critical, High, Medium, Low, Informational and Undefined in that
\* order: the mapping's value for the key, 0 for a key the mapping lacks, and six
\* zeros when the mapping or the whole scan summary is absent.
C9_SeverityCounts ==
    (pc = "images_loop" /\ imgIdx >= 2 /\ IsDockerV1(response[1])) =>
        LET summary == response[1].image_scan_findings_summary
            counts  == SubSeq(stdout[2], 6, 11)
            zeros   == <<"0", "0", "0", "0", "0", "0">>
        IN  /\ Len(stdout[2]) = 11
            /\ summary = <<>> => counts = zeros
            /\ summary # <<>> =>
                  LET m == summary[1].finding_severity_counts
                  IN  /\ m = <<>> => counts = zeros
                      /\ (m # <<>> /\ DOMAIN m[1] = {}) => counts = zeros
                      /\ m = <<CountsCH>> => counts = <<"3", "1", "0", "0", "0", "0">>
                      /\ m = <<CountsAll>> => counts = <<"1", "2", "3", "4", "5", "12">>
                      /\ m = <<CountsLow>> => counts = <<"0", "0", "0", "2", "0", "7">>

C9_Witness ==
    /\ pc = "images_loop"
    /\ imgIdx = 2
    /\ IsDockerV1(response[1])
    /\ response[1].image_scan_findings_summary # <<>>
    /\ response[1].image_scan_findings_summary[1].finding_severity_counts = <<CountsCH>>
    /\ SubSeq(stdout[2], 6, 11) = <<"3", "1", "0", "0", "0", "0">>

Unformattable == {<<TYear10000>>, <<TYear0>>}

Rendered(ts) ==
    CASE ts = <<>> -> "1970-01-01T00:00:00Z"
      [] ts = <<default_date>> -> "1970-01-01T00:00:00Z"
      [] ts = <<T2023>> -> "2023-11-14T22:13:20Z"
      [] ts = <<TYear1>> -> "0001-01-01T00:00:00Z"
      [] ts = <<TYear9999>> -> "9999-12-31T23:59:59Z"
      [] ts \in Unformattable -> ""

\* C10 (as stated): the two timestamp fields of a row are both empty exactly when
\* the scan summary is absent, and with a summary an absent timestamp is rendered
\* as the formatted epoch.
C10_EmptyIffNoSummary ==
    (pc = "images_loop" /\ imgIdx >= 2 /\ IsDockerV1(response[1])) =>
        LET summary == response[1].image_scan_findings_summary
        IN  /\ (stdout[2][4] = "" /\ stdout[2][5] = "") <=> summary = <<>>
            /\ (summary # <<>> /\ summary[1].image_scan_completed_at = <<>>) =>
                  stdout[2][4] = "1970-01-01T00:00:00Z"
            /\ (summary # <<>> /\ summary[1].vulnerability_source_updated_at = <<>>) =>
                  stdout[2][5] = "1970-01-01T00:00:00Z"

\* C10 (amended): without a scan summary both timestamp fields are empty; with
\* one, an absent timestamp is rendered as the formatted epoch, a timestamp within
\* the years 1..9999 as its date-time, and a timestamp outside them as the empty
\* string, so both fields are empty exactly when the summary is absent or both
\* timestamps are present and outside that range.
C10_TimestampFields ==
    (pc = "images_loop" /\ imgIdx >= 2 /\ IsDockerV1(response[1])) =>
        LET summary == response[1].image_scan_findings_summary
        IN  /\ summary = <<>> => (stdout[2][4] = "" /\ stdout[2][5] = "")
            /\ summary # <<>> =>
                  /\ stdout[2][4] = Rendered(summary[1].image_scan_completed_at)
                  /\ stdout[2][5] = Rendered(summary[1].vulnerability_source_updated_at)
                  /\ (stdout[2][4] = "" /\ stdout[2][5] = "") <=>
                        /\ summary[1].image_scan_completed_at \in Unformattable
                        /\ summary[1].vulnerability_source_updated_at \in Unformattable

C10_Witness ==
    /\ pc = "images_loop"
    /\ imgIdx = 2
    /\ IsDockerV1(response[1])
    /\ response[1].image_scan_findings_summary # <<>>
    /\ response[1].image_scan_findings_summary[1].image_scan_completed_at = <<>>
    /\ response[1].image_scan_findings_summary[1].vulnerability_source_updated_at
          = <<T2023>>
    /\ stdout[2][4] = "1970-01-01T00:00:00Z"
    /\ stdout[2][5] = "2023-11-14T22:13:20Z"

====
